---- MODULE Spec2Model ----
(***************************************************************************)
(* Model of app.py, the CloudMart tagging dashboard.                       *)
(*                                                                         *)
(* app.py is a Streamlit script: it runs from top to bottom once at       *)
(* session start and once more after every widget gesture.  Each run       *)
(* re-reads the CSV file, recomputes every table and metric from the file  *)
(* and from the widget state (the three sidebar multiselects and the       *)
(* data editor), and stops at the first exception, which the top-level    *)
(* except turns into an error box.  A state of the model is the page after *)
(* one complete run; an action is one widget gesture followed by the       *)
(* rerun it triggers.                                                      *)
(*                                                                         *)
(* pandas' RangeIndex 0..n-1 is written 1..n here.                         *)
(***************************************************************************)
EXTENDS Integers, Sequences, FiniteSets, TLC

\* ---------------------------------------------------------------- bounds
NumRows == 2        \* rows of the CSV file
MaxRuns == 1        \* reruns (widget gestures) of one session
MaxMissing == 1     \* columns left out of the header in the column family

\* ------------------------------------------------------------ cell values
None == "None"                           \* a null cell of an object column
NaN == [isna |-> TRUE, v |-> 0]          \* a null cell of a numeric column
Num(n) == [isna |-> FALSE, v |-> n]

\* pd.to_numeric(errors="coerce") on the raw text of a cost cell
to_numeric(s) ==
  CASE s = "2" -> Num(2)
    [] s = "1" -> Num(1)
    [] s = "-1" -> Num(-1)
    [] OTHER -> NaN

index == 1 .. NumRows                    \* df.index
UnknownRowID == NumRows + 1              \* a RowID that is no label of df.index

candidate_tag_fields ==
  <<"Department", "Project", "Environment", "Owner", "CostCenter", "CreatedBy">>

AllColumns ==
  {"ResourceID", "MonthlyCostUSD", "Tagged", "Service", "Region",
   "Department", "Project", "Environment", "Owner", "CostCenter", "CreatedBy"}

\* tag_fields = [col for col in candidate_tag_fields if col in df.columns]
tag_fields(cols) == SelectSeq(candidate_tag_fields, LAMBDA c : c \in cols)

Range(s) == {s[k] : k \in DOMAIN s}

\* Series.isin(values): a null cell is never a member
isin(v, values) == v # None /\ v \in values

notnull(v) == v # None

\* ------------------------------------------------------------- loading
\* pd.read_csv followed by the coercion of MonthlyCostUSD; a column that is
\* not in the header holds nothing
Cell(rows, cols, i, c) == IF c \in cols THEN rows[i][c] ELSE None

read_csv(rows, cols) ==
  [i \in index |->
     [MonthlyCostUSD |-> IF "MonthlyCostUSD" \in cols
                         THEN to_numeric(rows[i].MonthlyCostUSD) ELSE NaN,
      Tagged |-> Cell(rows, cols, i, "Tagged"),
      Service |-> Cell(rows, cols, i, "Service"),
      Region |-> Cell(rows, cols, i, "Region"),
      Department |-> Cell(rows, cols, i, "Department"),
      Project |-> Cell(rows, cols, i, "Project"),
      Environment |-> Cell(rows, cols, i, "Environment"),
      Owner |-> Cell(rows, cols, i, "Owner"),
      CostCenter |-> Cell(rows, cols, i, "CostCenter"),
      CreatedBy |-> Cell(rows, cols, i, "CreatedBy"),
      TagCompletenessScore |-> 0]]

\* Series.sum() of MonthlyCostUSD over the rows S of table d (NaN skipped)
RECURSIVE SumCost(_, _)
SumCost(d, S) ==
  IF S = {} THEN 0
  ELSE LET i == CHOOSE j \in S : TRUE
       IN (IF d[i].MonthlyCostUSD.isna THEN 0 ELSE d[i].MonthlyCostUSD.v)
          + SumCost(d, S \ {i})

\* variant: every row not marked "Yes" counts as untagged
UntaggedRows_NotYes(d) == {i \in index : d[i].Tagged # "Yes"}

\* rows selected by df["Tagged"] == "No"
UntaggedRows(d) == {i \in index : d[i].Tagged = "No"}

\* variant: the guard's else branch reports everything as untagged
Pct_ElseFull(part, total) == IF total > 0 THEN <<part * 100, total>> ELSE <<100, 1>>

\* a percentage kept exact as <<numerator, denominator>>
Pct(part, total) == IF total > 0 THEN <<part * 100, total>> ELSE <<0, 1>>

\* ----------------------------------------------------------- Task Set 2
\* df_env of task 2.5
DfEnv(d) == {i \in index : isin(d[i].Environment, {"Prod", "Dev"})}

\* the exception Task Set 2 raises, if any
TaskSet2Error(cols, d) ==
  IF "MonthlyCostUSD" \notin cols THEN "none"
  ELSE IF "Tagged" \notin cols THEN "KeyError: 'Tagged'"
  ELSE IF "Environment" \in cols /\ DfEnv(d) # {} /\ "ResourceID" \notin cols
       THEN "KeyError: 'Column not found: ResourceID'"
  ELSE "none"

\* ----------------------------------------------------------- Task Set 3
TagCompletenessScore(d, cols, i) ==
  Cardinality({c \in Range(tag_fields(cols)) : notnull(d[i][c])})

WithScore(d, cols) ==
  [i \in index |->
     [d[i] EXCEPT !.TagCompletenessScore = TagCompletenessScore(d, cols, i)]]

\* df as the run leaves it
LoadedDf(rows, cols) ==
  LET d == read_csv(rows, cols)
  IN IF TaskSet2Error(cols, d) = "none" /\ tag_fields(cols) # <<>>
     THEN WithScore(d, cols) ELSE d

\* ----------------------------------------------------------- Task Set 4
Options(cols, d, col) ==
  IF col \in cols THEN {d[i][col] : i \in index} \ {None} ELSE {}

ApplyFilters(cols, d, ss, sr, sd) ==
  {i \in index :
     /\ ("Service" \in cols /\ ss # {}) => isin(d[i].Service, ss)
     /\ ("Region" \in cols /\ sr # {}) => isin(d[i].Region, sr)
     /\ ("Department" \in cols /\ sd # {}) => isin(d[i].Department, sd)}

\* groupby(keys)["MonthlyCostUSD"].sum() over the rows F: rows with a null
\* key are dropped (dropna defaults to True)
GroupKey(d, i, keys) == [k \in DOMAIN keys |-> d[i][keys[k]]]

GroupBySum(d, F, keys) ==
  LET G == {i \in F : \A k \in DOMAIN keys : notnull(d[i][keys[k]])}
      K == {GroupKey(d, i, keys) : i \in G}
  IN [key \in K |-> SumCost(d, {i \in G : GroupKey(d, i, keys) = key})]

\* ----------------------------------------------------------- Task Set 5
editable_cols(cols) == Range(tag_fields(cols))

\* untagged_original[columns_for_editor]: what the editor shows before any edit
DefaultGrid(d, cols) ==
  [r \in UntaggedRows(d) |-> [c \in editable_cols(cols) |-> d[r][c]]]

\* the data editor is reached and shown
EditorShown(cols, d) ==
  /\ TaskSet2Error(cols, d) = "none"
  /\ "Tagged" \in cols
  /\ "ResourceID" \in cols
  /\ UntaggedRows(d) # {}

\* df_remediated.loc[edited_for_update.index, col] = edited_for_update[col]
\* raises KeyError when a label of the edited index is not in df.index
WriteBackError(cols, grid) ==
  IF editable_cols(cols) # {} /\ ~(DOMAIN grid \subseteq index)
  THEN "KeyError: RowID not in index" ELSE "none"

\* variant: only non-null cells of the editor are written back
Remediate_KeepFilled(d, cols, grid) ==
  [i \in index |->
     IF i \in DOMAIN grid
     THEN [c \in DOMAIN d[i] |->
             IF c \in editable_cols(cols) /\ notnull(grid[i][c])
             THEN grid[i][c] ELSE d[i][c]]
     ELSE d[i]]

Remediate(d, cols, grid) ==
  [i \in index |->
     IF i \in DOMAIN grid
     THEN [c \in DOMAIN d[i] |->
             IF c \in editable_cols(cols) THEN grid[i][c] ELSE d[i][c]]
     ELSE d[i]]

\* variant: df_remediated = df, so the write-back lands in df itself
OriginalAfterEdits_Aliased(d, cols, grid) ==
  IF WriteBackError(cols, grid) = "none" THEN Remediate(d, cols, grid) ELSE d

\* df at the end of the run: df_remediated is df.copy(), the write-back of
\* the editor's rows goes to the copy and df stays as loaded
OriginalAfterEdits(d, cols, grid) == d

\* variant: any() in place of all()
completeness_mask_any(d, cols, i) ==
  \E c \in Range(tag_fields(cols)) : notnull(d[i][c])

\* completeness_mask = df_after[current_tag_fields].notnull().all(axis=1)
completeness_mask(d, cols, i) ==
  \A c \in Range(tag_fields(cols)) : notnull(d[i][c])

\* variant: only rows marked "No" are promoted
Reclassify_OnlyNo(d, cols) ==
  [i \in index |->
     IF tag_fields(cols) # <<>> /\ completeness_mask(d, cols, i) /\ d[i].Tagged = "No"
     THEN [d[i] EXCEPT !.Tagged = "Yes"] ELSE d[i]]

\* variant: Tagged is recomputed both ways, "Yes" if complete else "No"
Reclassify_BothWays(d, cols) ==
  [i \in index |->
     IF tag_fields(cols) = <<>> THEN d[i]
     ELSE IF completeness_mask(d, cols, i) THEN [d[i] EXCEPT !.Tagged = "Yes"]
     ELSE [d[i] EXCEPT !.Tagged = "No"]]

\* df_after: df_remediated with Tagged = "Yes" where the mask holds
Reclassify(d, cols) ==
  [i \in index |->
     IF tag_fields(cols) # <<>> /\ completeness_mask(d, cols, i)
     THEN [d[i] EXCEPT !.Tagged = "Yes"] ELSE d[i]]

\* variant: the metrics read the filtered view
MetricsRows_Filtered(cols, d, ss, sr, sd) == ApplyFilters(cols, d, ss, sr, sd)

\* the rows the metrics of tasks 2.2 and 5.4 range over: the script reads
\* df and df_after there, never df_filtered
MetricsRows(cols, d, ss, sr, sd) == index

\* total cost, untagged cost, untagged count and untagged share of the
\* rows S of table d
Metrics(d, S) ==
  [total_cost |-> SumCost(d, S),
   untagged_cost |-> SumCost(d, S \cap UntaggedRows(d)),
   untagged_resources |-> Cardinality(S \cap UntaggedRows(d)),
   pct_untagged_cost |-> Pct(SumCost(d, S \cap UntaggedRows(d)), SumCost(d, S))]

NoMetrics ==
  [total_cost |-> 0, untagged_cost |-> 0, untagged_resources |-> 0,
   pct_untagged_cost |-> <<0, 1>>]

\* ------------------------------------------------------------ one run
\* the sections of the page a run renders before it ends or raises
Rendered(cols, d, F, grid) ==
  LET has(c) == c \in cols
      ts1 == {"1.1", "1.2", "1.3"} \cup
             (IF has("Tagged")
              THEN {"1.4"} \cup (IF UntaggedRows(d) # {} THEN {"1.5"} ELSE {"1.5:none"})
              ELSE {"1.4:notice"})
      ts2 == IF ~has("MonthlyCostUSD") THEN {"2:notice"}
             ELSE IF ~has("Tagged") THEN {}
             ELSE {"2.1", "2.2"}
                  \cup (IF has("Department") THEN {"2.3"} ELSE {"2.3:notice"})
                  \cup (IF has("Project") THEN {"2.4"} ELSE {"2.4:notice"})
                  \cup (IF ~has("Environment") THEN {"2.5:notice"}
                        ELSE IF TaskSet2Error(cols, d) = "none" THEN {"2.5"} ELSE {})
      ts3 == IF tag_fields(cols) = <<>> THEN {"3:notice"}
             ELSE {"3.1", "3.2", "3.3"} \cup
                  (IF ~has("Tagged") THEN {"3.4:notice"}
                   ELSE IF UntaggedRows(d) # {} THEN {"3.4", "3.5"} ELSE {"3.4:none"})
      ts4 == {"4.5"} \cup
             (IF F = {} THEN {"4:warning"}
              ELSE (IF has("Tagged") THEN {"4.1"} ELSE {})
                   \cup (IF {"Department", "Tagged", "MonthlyCostUSD"} \subseteq cols
                         THEN {"4.2"} ELSE {})
                   \cup (IF {"Service", "MonthlyCostUSD"} \subseteq cols
                         THEN {"4.3"} ELSE {})
                   \cup (IF {"Environment", "MonthlyCostUSD"} \subseteq cols
                         THEN {"4.4"} ELSE {}))
      ts5 == IF ~has("Tagged") \/ ~has("ResourceID") THEN {"5:notice"}
             ELSE IF UntaggedRows(d) = {} THEN {"5.1:none"}
             ELSE {"5.1"} \cup
                  (IF WriteBackError(cols, grid) # "none" THEN {}
                   ELSE {"5.3", "5.5"} \cup
                        (IF has("MonthlyCostUSD") THEN {"5.4"} ELSE {"5.4:notice"}))
  IN IF TaskSet2Error(cols, d) # "none" THEN ts1 \cup ts2
     ELSE ts1 \cup ts2 \cup ts3 \cup ts4 \cup ts5

\* everything one run of the script leaves on the page, from the file
\* (rows, cols) and the widget state (ss, sr, sd, grid)
Script(rows, cols, ss, sr, sd, grid) ==
  LET d == LoadedDf(rows, cols)
      F == ApplyFilters(cols, d, ss, sr, sd)
      r == Rendered(cols, d, F, grid)
      rem == Remediate(d, cols, grid)
      aft == Reclassify(rem, cols)
      orig == OriginalAfterEdits(d, cols, grid)
  IN [df |-> orig,
      error |-> IF TaskSet2Error(cols, d) # "none" THEN TaskSet2Error(cols, d)
                ELSE IF EditorShown(cols, d) THEN WriteBackError(cols, grid)
                ELSE "none",
      rendered |-> r,
      cost_visibility |-> IF "2.2" \in r THEN Metrics(d, index) ELSE NoMetrics,
      df_filtered |-> IF "4.5" \in r THEN F ELSE {},
      dept_cost |-> IF "4.2" \in r
                    THEN GroupBySum(d, F, <<"Department", "Tagged">>) ELSE <<>>,
      svc_cost |-> IF "4.3" \in r THEN GroupBySum(d, F, <<"Service">>) ELSE <<>>,
      env_cost |-> IF "4.4" \in r THEN GroupBySum(d, F, <<"Environment">>) ELSE <<>>,
      untagged_original |-> IF "5.1" \in r THEN UntaggedRows(d) ELSE {},
      df_remediated |-> IF "5.3" \in r THEN rem ELSE <<>>,
      df_after |-> IF "5.4" \in r THEN aft ELSE <<>>,
      before |-> IF "5.4" \in r
                 THEN Metrics(orig, MetricsRows(cols, orig, ss, sr, sd)) ELSE NoMetrics,
      after |-> IF "5.4" \in r
                THEN Metrics(aft, MetricsRows(cols, aft, ss, sr, sd)) ELSE NoMetrics]

\* ---------------------------------------------------------------- state
VARIABLES
  csv,                   \* the file: [columns, rows]
  selected_services,     \* the three sidebar multiselects
  selected_regions,
  selected_departments,
  edited_untagged,       \* the data editor's table: RowID -> tag field -> cell
  runs,                  \* reruns so far
  df, error, rendered, cost_visibility, df_filtered,
  dept_cost, svc_cost, env_cost,
  untagged_original, df_remediated, df_after, before, after

widgets == <<selected_services, selected_regions, selected_departments, edited_untagged>>
page == <<df, error, rendered, cost_visibility, df_filtered, dept_cost, svc_cost,
          env_cost, untagged_original, df_remediated, df_after, before, after>>
vars == <<csv, widgets, runs, page>>

columns == csv.columns

\* the page is the outcome p of Script
PageIs(p) ==
  /\ df = p.df
  /\ error = p.error
  /\ rendered = p.rendered
  /\ cost_visibility = p.cost_visibility
  /\ df_filtered = p.df_filtered
  /\ dept_cost = p.dept_cost
  /\ svc_cost = p.svc_cost
  /\ env_cost = p.env_cost
  /\ untagged_original = p.untagged_original
  /\ df_remediated = p.df_remediated
  /\ df_after = p.df_after
  /\ before = p.before
  /\ after = p.after

\* the next page is the outcome p of Script
NextPageIs(p) ==
  /\ df' = p.df
  /\ error' = p.error
  /\ rendered' = p.rendered
  /\ cost_visibility' = p.cost_visibility
  /\ df_filtered' = p.df_filtered
  /\ dept_cost' = p.dept_cost
  /\ svc_cost' = p.svc_cost
  /\ env_cost' = p.env_cost
  /\ untagged_original' = p.untagged_original
  /\ df_remediated' = p.df_remediated
  /\ df_after' = p.df_after
  /\ before' = p.before
  /\ after' = p.after

\* the first run of a session on the file f: every widget at its default
FirstRun(f) ==
  LET d == LoadedDf(f.rows, f.columns)
      ss == Options(f.columns, d, "Service")
      sr == Options(f.columns, d, "Region")
      sd == Options(f.columns, d, "Department")
      grid == IF EditorShown(f.columns, d) THEN DefaultGrid(d, f.columns) ELSE <<>>
  IN /\ csv = f
     /\ selected_services = ss
     /\ selected_regions = sr
     /\ selected_departments = sd
     /\ edited_untagged = grid
     /\ runs = 0
     /\ PageIs(Script(f.rows, f.columns, ss, sr, sd, grid))

\* the rerun a gesture triggers, with the new widget state
Rerun(ss, sr, sd, grid) ==
  /\ runs < MaxRuns
  /\ runs' = runs + 1
  /\ csv' = csv
  /\ selected_services' = ss
  /\ selected_regions' = sr
  /\ selected_departments' = sd
  /\ edited_untagged' = grid
  /\ NextPageIs(Script(csv.rows, csv.columns, ss, sr, sd, grid))

\* ---------------------------------------------------------- the gestures
\* st.multiselect: the user picks another subset of one filter's options
Multiselect ==
  /\ "4.5" \in rendered
  /\ \E label \in {"Service", "Region", "Department"} :
       /\ Options(columns, df, label) # {}
       /\ \E sel \in SUBSET Options(columns, df, label) :
            /\ label = "Service" =>
                 sel # selected_services
                 /\ Rerun(sel, selected_regions, selected_departments, edited_untagged)
            /\ label = "Region" =>
                 sel # selected_regions
                 /\ Rerun(selected_services, sel, selected_departments, edited_untagged)
            /\ label = "Department" =>
                 sel # selected_departments
                 /\ Rerun(selected_services, selected_regions, sel, edited_untagged)

\* what a user types into a cell of a tag column
CellValues(c) ==
  CASE c = "Department" -> {None, "Eng", "Sales"}
    [] c = "Project" -> {None, "X"}
    [] c = "Environment" -> {None, "Prod"}
    [] c = "Owner" -> {None, "alice"}
    [] c = "CostCenter" -> {None, "CC1"}
    [] c = "CreatedBy" -> {None, "bob"}

\* st.data_editor: the user changes one cell of a tag column
EditCell ==
  /\ "5.1" \in rendered
  /\ \E r \in DOMAIN edited_untagged, c \in editable_cols(columns) :
       \E v \in CellValues(c) \ {edited_untagged[r][c]} :
         Rerun(selected_services, selected_regions, selected_departments,
               [edited_untagged EXCEPT ![r][c] = v])

\* st.data_editor(num_rows="dynamic"): the user adds a row and gives it a RowID
AddRow ==
  /\ "5.1" \in rendered
  /\ \E r \in (index \cup {UnknownRowID}) \ DOMAIN edited_untagged :
       Rerun(selected_services, selected_regions, selected_departments,
             [x \in DOMAIN edited_untagged \cup {r} |->
                IF x = r THEN [c \in editable_cols(columns) |-> None]
                ELSE edited_untagged[x]])

\* st.data_editor(num_rows="dynamic"): the user deletes a row
DeleteRow ==
  /\ "5.1" \in rendered
  /\ \E r \in DOMAIN edited_untagged :
       Rerun(selected_services, selected_regions, selected_departments,
             [x \in DOMAIN edited_untagged \ {r} |-> edited_untagged[x]])

Next == Multiselect \/ EditCell \/ AddRow \/ DeleteRow

\* ------------------------------------------------------- the input files
Row(cost, tagged, service, region, dept, project, env, owner, cc, by) ==
  [MonthlyCostUSD |-> cost, Tagged |-> tagged, Service |-> service,
   Region |-> region, Department |-> dept, Project |-> project,
   Environment |-> env, Owner |-> owner, CostCenter |-> cc, CreatedBy |-> by]

\* remediation family: every tag column but CreatedBy; Tagged, Owner and
\* CostCenter vary
RemedColumns ==
  {"ResourceID", "MonthlyCostUSD", "Tagged", "Department", "Project",
   "Environment", "Owner", "CostCenter"}
RemedRows ==
  {Row("2", t, None, None, "Eng", "X", "Prod", o, cc, None) :
     t \in {"Yes", "No", None}, o \in {None, "alice"}, cc \in {None, "CC1"}}
InitRemed ==
  \E rows \in [index -> RemedRows] :
    FirstRun([columns |-> RemedColumns, rows |-> rows])

\* cost family: cost, Tagged and Department vary; Department is the only
\* tag column and the only filter
CostColumns == {"ResourceID", "MonthlyCostUSD", "Tagged", "Department"}
CostRows ==
  {Row(c, t, None, None, d, None, None, None, None, None) :
     c \in {"2", "-1", "n/a"}, t \in {"Yes", "No"}, d \in {None, "Eng", "Sales"}}
InitCost ==
  \E rows \in [index -> CostRows] :
    FirstRun([columns |-> CostColumns, rows |-> rows])

\* column family: a fixed table under every header that leaves out at most
\* MaxMissing columns
ColsRows ==
  [i \in index |->
     IF i = 1 THEN Row("2", "No", "EC2", "us-east-1", "Eng", "X", "Prod", None, "CC1", "bob")
     ELSE Row("1", "Yes", "S3", "eu-west-1", "Sales", "X", "Dev", "alice", None, "bob")]
InitCols ==
  \E missing \in SUBSET AllColumns :
    /\ Cardinality(missing) <= MaxMissing
    /\ FirstRun([columns |-> AllColumns \ missing, rows |-> ColsRows])

SpecRemed == InitRemed /\ [][Next]_vars
SpecCost == InitCost /\ [][Next]_vars
SpecCols == InitCols /\ [][Next]_vars

TypeOK ==
  /\ runs \in 0 .. MaxRuns
  /\ DOMAIN edited_untagged \subseteq index \cup {UnknownRowID}
  /\ df_filtered \subseteq index

\* ================================================================ claims
CoreFields == {"Department", "Project", "Environment", "Owner"}
TagFieldSet == Range(tag_fields(columns))

\* every RowID of the edit batch is a row of the table
TargetsExist == DOMAIN edited_untagged \subseteq index

\* every cell of the edit batch equals the row's current value
IdentityBatch ==
  /\ TargetsExist
  /\ \A r \in DOMAIN edited_untagged : \A c \in editable_cols(columns) :
       edited_untagged[r][c] = df[r][c]

\* the edit batch blanks no cell that holds a value
OnlyFills ==
  /\ TargetsExist
  /\ \A r \in DOMAIN edited_untagged : \A c \in editable_cols(columns) :
       notnull(df[r][c]) => notnull(edited_untagged[r][c])

\* C1 as stated: after the edits are applied, every row of the resulting
\* table whose Department, Project, Environment and Owner are all non-null
\* has Tagged = "Yes", whatever CostCenter and CreatedBy hold.
C1_RatchetCoreFields ==
  "5.4" \in rendered =>
    \A i \in index :
      (\A c \in CoreFields : notnull(df_after[i][c])) => df_after[i].Tagged = "Yes"

\* C1 as amended: after the edits are applied, every row of df_after whose
\* configured tag fields (all candidate tag fields that are columns of the
\* table, CostCenter and CreatedBy included) are all non-null has
\* Tagged = "Yes".
C1_RatchetAllTagFields ==
  "5.4" \in rendered =>
    \A i \in index :
      (TagFieldSet # {} /\ \A c \in TagFieldSet : notnull(df_after[i][c]))
        => df_after[i].Tagged = "Yes"

\* an untagged, incomplete row was edited to completeness and promoted,
\* beside a row whose Tagged is null and is complete
C1_Witness ==
  /\ "5.4" \in rendered
  /\ runs > 0
  /\ \E i \in index :
       /\ df[i].Tagged = "No"
       /\ \E c \in TagFieldSet : df[i][c] = None
       /\ \A c \in TagFieldSet : notnull(df_after[i][c])
       /\ df_after[i].Tagged = "Yes"

\* C2 as stated: a batch holding an edit whose RowID is not in the table
\* raises no error, and every edit of the batch whose target exists is
\* applied to the remediated table.
C2_UnknownEditTargetIgnored ==
  ("5.1" \in rendered /\ UnknownRowID \in DOMAIN edited_untagged) =>
    /\ error = "none"
    /\ "5.3" \in rendered
    /\ \A r \in DOMAIN edited_untagged \cap index : \A c \in editable_cols(columns) :
         df_remediated[r][c] = edited_untagged[r][c]

\* C3 as stated: a batch in which every cell equals the current value yields
\* a table identical to the input in every column, Tagged included.
C3_IdentityBatchChangesNothing ==
  ("5.4" \in rendered /\ IdentityBatch) => df_after = df

\* C3 as amended: a batch in which every cell equals the current value
\* leaves the remediated table identical to the input, and df_after differs
\* from the input only in Tagged of the rows whose configured tag fields are
\* all non-null, which is "Yes".
C3_IdentityBatchPromotesComplete ==
  ("5.4" \in rendered /\ IdentityBatch) =>
    /\ df_remediated = df
    /\ \A i \in index :
         df_after[i] =
           IF TagFieldSet # {} /\ \A c \in TagFieldSet : notnull(df[i][c])
           THEN [df[i] EXCEPT !.Tagged = "Yes"] ELSE df[i]

\* an identity batch reached through edits, on a table with a complete row
\* marked "No" that flips and an incomplete row that does not
C3_Witness ==
  /\ "5.4" \in rendered
  /\ IdentityBatch
  /\ runs > 0
  /\ \E i \in index : df[i].Tagged = "No" /\ df_after[i].Tagged = "Yes"
  /\ \E i \in index : df[i].Tagged = "No" /\ df_after[i] = df[i]

\* no cost of the table is negative (a null cost counts as 0)
NonNegativeCosts ==
  \A i \in index : df[i].MonthlyCostUSD.isna \/ df[i].MonthlyCostUSD.v >= 0

\* C4 as stated: for every table and every batch that only fills tag fields,
\* the after untagged cost and untagged count are at most the before ones.
C4_FillsNeverIncrease ==
  ("5.4" \in rendered /\ OnlyFills) =>
    /\ after.untagged_cost <= before.untagged_cost
    /\ after.untagged_resources <= before.untagged_resources

\* C4 as amended: for every batch that only fills tag fields the after
\* untagged count is at most the before count, and on a table without
\* negative costs the after untagged cost is at most the before cost.
C4_FillsNeverIncreaseNonNegative ==
  ("5.4" \in rendered /\ OnlyFills) =>
    /\ after.untagged_resources <= before.untagged_resources
    /\ NonNegativeCosts => after.untagged_cost <= before.untagged_cost

\* a batch that filled an empty Department of an untagged row with a
\* positive cost, next to an incomplete row marked "Yes", lowered both
\* the untagged count and the untagged cost
C4_Witness ==
  /\ "5.4" \in rendered
  /\ OnlyFills
  /\ NonNegativeCosts
  /\ runs > 0
  /\ \E r \in DOMAIN edited_untagged :
       df[r].Department = None /\ notnull(edited_untagged[r].Department)
  /\ \E i \in index : df_after[i].Tagged = "Yes" /\ df_after[i].Department = None
  /\ after.untagged_resources < before.untagged_resources
  /\ after.untagged_cost < before.untagged_cost

\* the multiselects that filter: the column exists and something is selected
ActiveFilters ==
  {f \in {<<"Service", selected_services>>, <<"Region", selected_regions>>,
          <<"Department", selected_departments>>} :
     f[1] \in columns /\ f[2] # {}}

\* C5 as stated: a row is dropped from the filtered view only when its value
\* in some filtered field is non-null and not in the allowed set; rows with
\* a null value are kept.
C5_FilterKeepsNull ==
  "4.5" \in rendered =>
    \A i \in index :
      i \notin df_filtered =>
        \E f \in ActiveFilters : df[i][f[1]] # None /\ df[i][f[1]] \notin f[2]

\* C6 as stated: the candidate set shown in the editor is exactly the rows
\* with Tagged = "No" or a null Department, Project or Owner.
C6_CandidatesIncludePartiallyTagged ==
  "Tagged" \in columns =>
    /\ untagged_original =
         {i \in index : \/ df[i].Tagged = "No"
                        \/ \E c \in {"Department", "Project", "Owner"} : df[i][c] = None}
    /\ runs = 0 => DOMAIN edited_untagged = untagged_original

\* C6 as amended: the candidate set shown in the editor is exactly the rows
\* with Tagged = "No"; a row with Tagged = "Yes" and a null Owner is not a
\* candidate.
C6_CandidatesAreUntagged ==
  "Tagged" \in columns =>
    /\ untagged_original = {i \in index : df[i].Tagged = "No"}
    /\ runs = 0 => DOMAIN edited_untagged = untagged_original
    /\ \A i \in index :
         (df[i].Tagged = "Yes" /\ df[i].Owner = None) => i \notin untagged_original

\* the editor is shown on a table that also holds a row marked "Yes" with a
\* null Owner
C6_Witness ==
  /\ "5.1" \in rendered
  /\ runs = 0
  /\ \E i \in DOMAIN edited_untagged : df[i].Tagged = "No"
  /\ \E i \in index \ DOMAIN edited_untagged : df[i].Tagged = "Yes" /\ df[i].Owner = None

\* the untagged share of a metric set is within [0, 100] when the total is
\* positive and is 0 otherwise
PctWithinRange(m) ==
  /\ m.total_cost > 0 =>
       /\ 0 <= m.pct_untagged_cost[1]
       /\ m.pct_untagged_cost[1] <= 100 * m.pct_untagged_cost[2]
  /\ m.total_cost <= 0 => m.pct_untagged_cost[1] = 0

\* C7 as stated: for every table the loader accepts, the untagged cost share
\* is within [0, 100] when the total cost is positive and exactly 0 when it
\* is not, in the overall, the before and the after metric.
C7_PctWithinRange ==
  /\ "2.2" \in rendered => PctWithinRange(cost_visibility)
  /\ "5.4" \in rendered => PctWithinRange(before) /\ PctWithinRange(after)

\* C7 as amended: the same, for every table without negative costs.
C7_PctWithinRangeNonNegative ==
  NonNegativeCosts => C7_PctWithinRange

\* a table without negative costs whose before share is strictly between 0
\* and 100
C7_Witness ==
  /\ "5.4" \in rendered
  /\ NonNegativeCosts
  /\ before.total_cost > 0
  /\ 0 < before.pct_untagged_cost[1]
  /\ before.pct_untagged_cost[1] < 100 * before.pct_untagged_cost[2]
  /\ cost_visibility = before

\* C8 as stated: when a column other than ResourceID is absent, no exception
\* is raised and the sections that do not depend on it are still produced.
C8_MissingColumnOnlySkipsItsSections ==
  (columns # AllColumns /\ "ResourceID" \in columns /\ TargetsExist) =>
    /\ error = "none"
    /\ {"1.1", "1.2", "1.3", "4.5"} \subseteq rendered

\* C9 as stated: the before metrics are computed over the rows of the
\* original table that pass the selected filter, the after metrics over the
\* rows of the edited table that pass it on the edited table's own values.
C9_MetricsOverFilteredTables ==
  "5.4" \in rendered =>
    /\ before = Metrics(df, ApplyFilters(columns, df, selected_services,
                                         selected_regions, selected_departments))
    /\ after = Metrics(df_after, ApplyFilters(columns, df_after, selected_services,
                                              selected_regions, selected_departments))

\* C9 as amended: the before metrics are computed over every row of the
\* original table and the after metrics over every row of the edited table;
\* the selected filter has no effect on them.
C9_MetricsOverWholeTables ==
  "5.4" \in rendered =>
    /\ before.total_cost = SumCost(df, index)
    /\ before.untagged_cost = SumCost(df, {i \in index : df[i].Tagged = "No"})
    /\ before.untagged_resources = Cardinality({i \in index : df[i].Tagged = "No"})
    /\ after.total_cost = SumCost(df_after, index)
    /\ after.untagged_cost = SumCost(df_after, {i \in index : df_after[i].Tagged = "No"})
    /\ after.untagged_resources = Cardinality({i \in index : df_after[i].Tagged = "No"})

\* the filter hides an untagged row with a cost, before and after the edits
C9_Witness ==
  /\ "5.4" \in rendered
  /\ runs > 0
  /\ selected_departments # {}
  /\ \E i \in index \ df_filtered :
       /\ df[i].Tagged = "No" /\ df_after[i].Tagged = "No"
       /\ ~df[i].MonthlyCostUSD.isna /\ df[i].MonthlyCostUSD.v > 0
  /\ df_filtered # {}

RECURSIVE BucketTotal(_, _)
BucketTotal(g, K) ==
  IF K = {} THEN 0
  ELSE LET k == CHOOSE x \in K : TRUE IN g[k] + BucketTotal(g, K \ {k})

\* C10 as stated: each grouped cost sum has a bucket for the rows whose
\* category is null, so the buckets of one grouping add up to the total cost
\* of the table that was grouped.
C10_BucketsAddUpToTotal ==
  /\ "4.2" \in rendered => BucketTotal(dept_cost, DOMAIN dept_cost) = SumCost(df, df_filtered)
  /\ "4.3" \in rendered => BucketTotal(svc_cost, DOMAIN svc_cost) = SumCost(df, df_filtered)
  /\ "4.4" \in rendered => BucketTotal(env_cost, DOMAIN env_cost) = SumCost(df, df_filtered)

\* row i was promoted by the current run: not "Yes" in the file, "Yes" in
\* df_after
Promoted(i) ==
  "5.4" \in rendered /\ df[i].Tagged # "Yes" /\ df_after[i].Tagged = "Yes"

\* C11 as stated: once a row has been reclassified to "Yes" after some edit
\* batch, it still has Tagged = "Yes" after every later batch of the session,
\* also after a batch that blanks one of its tag fields.
C11_RatchetOneWay ==
  [][\A i \in index :
       (Promoted(i) /\ "5.4" \in rendered') => df_after'[i].Tagged = "Yes"]_vars

\* C11 as amended: the reclassification is recomputed from the original
\* table on every run and does not persist: after a later batch a row that
\* had been reclassified to "Yes" has Tagged = "Yes" if all its configured
\* tag fields are non-null under that batch, and otherwise has the Tagged
\* value of the original table again; a batch that blanks one of its tag
\* fields thus undoes the reclassification.
C11_RatchetRecomputedEachRun ==
  [][\A i \in index :
       (Promoted(i) /\ "5.4" \in rendered') =>
         df_after'[i].Tagged =
           IF \A c \in TagFieldSet :
                notnull(IF i \in DOMAIN edited_untagged'
                        THEN edited_untagged'[i][c] ELSE df[i][c])
           THEN "Yes" ELSE df[i].Tagged]_vars

\* a complete row marked "No", promoted by the first run, had a tag field
\* blanked in the editor and is "No" again
C11_Witness ==
  /\ "5.4" \in rendered
  /\ runs > 0
  /\ \E i \in DOMAIN edited_untagged \cap index :
       /\ df[i].Tagged = "No"
       /\ \A c \in TagFieldSet : notnull(df[i][c])
       /\ \E c \in TagFieldSet : edited_untagged[i][c] = None
       /\ df_after[i].Tagged = "No"

\* C12 as stated: in every table reachable through edits, each row's
\* TagCompletenessScore is the number of non-null values among the row's
\* configured tag fields; the score in the remediated table, which is the
\* exported dataset, reflects the edited tag values.
C12_ScoreReflectsEdits ==
  ("5.3" \in rendered /\ TagFieldSet # {}) =>
    \A i \in index :
      df_remediated[i].TagCompletenessScore =
        Cardinality({c \in TagFieldSet : df_remediated[i][c] # None})

\* the columns of the original table the claims speak of
OriginalFields == TagFieldSet \cup {"Tagged", "MonthlyCostUSD"}

\* C13: no sequence of remediation edits changes the original table: after
\* every edit batch the tag fields, Tagged and MonthlyCostUSD of df are those
\* it had at load, and the before metrics are the same before and after the
\* edit.
C13_OriginalNeverChanges ==
  [][/\ \A i \in index : \A c \in OriginalFields :
          /\ df'[i][c] = df[i][c]
          /\ df'[i][c] = read_csv(csv.rows, columns)[i][c]
     /\ ("5.4" \in rendered /\ "5.4" \in rendered') => before' = before]_vars

\* an edit changed a cell of the working copy and the metrics were shown
\* before and after it
C13_Witness ==
  /\ "5.4" \in rendered
  /\ runs > 0
  /\ \E r \in DOMAIN edited_untagged : \E c \in TagFieldSet :
       /\ edited_untagged[r][c] # df[r][c]
       /\ df_remediated[r][c] = edited_untagged[r][c]

====
